---------------------------- MODULE Spec2Model ----------------------------
(***************************************************************************)
(* A model of irmx86.py: a read-only reader of iRMX86 volume images.       *)
(*                                                                         *)
(* Bytes are naturals 0..255, byte strings are sequences of bytes, and     *)
(* text strings (paths, names) are sequences of ASCII code points.  A      *)
(* volume is the image as the code reads it: the decoded volume            *)
(* information block, the fnode table as a sequence of unpacked records    *)
(* (pointer_data kept as its 40 raw bytes) and the byte sequence that      *)
(* block and indirect reads address.                                       *)
(***************************************************************************)
EXTENDS Integers, Sequences, FiniteSets, TLC

VARIABLES
    vol,        \* the mounted image (never written: the file is opened 'rb')
    phase,      \* "mounting" | "ready" | "failed": position in FileSystem.__init__
    fnode_id,   \* loop index of _read_fnode_file
    fnodes,     \* FileSystem._fnodes: node id -> FileNode
    root,       \* FileSystem._root
    cwd,        \* FileSystem._cwd
    pathCache,  \* the lru_cache of _path_to_fnode: path argument -> FileNode
    result,     \* what the last call returned or raised, with its arguments
    ops,        \* number of session calls made so far
    walkStack,  \* the suspended generator frames of walk(), innermost last
    walked      \* the tuples walk() has yielded so far

vars == <<vol, phase, fnode_id, fnodes, root, cwd, pathCache, result, ops,
          walkStack, walked>>

---------------------------------------------------------------------------
(* Bounds of the model.                                                    *)

\* session calls (ls, cd, read_at) per behaviour of Spec
MaxOps == 3
\* records of the root directory in the volumes of SpecDir and SpecWalk
MaxRecs == 3
\* session calls after the mount in SpecMount and SpecDir
MaxCalls == 1

---------------------------------------------------------------------------
(* Generic helpers.                                                        *)

Min(a, b) == IF a < b THEN a ELSE b

Zeros(n) == [i \in 1..n |-> 0]

RECURSIVE Concat(_)
Concat(ss) == IF ss = <<>> THEN <<>> ELSE Head(ss) \o Concat(Tail(ss))

Front(s) == SubSeq(s, 1, Len(s) - 1)

Last(s) == s[Len(s)]

\* the element of a one-element set: The({e(x) : x \in {value}}) is e(value),
\* with value computed once
The(S) == CHOOSE x \in S : TRUE

\* None where a string is expected, and where a node is expected
None == <<-1>>

NoNode == [type |-> "none"]

NoErr == "none"

---------------------------------------------------------------------------
(* Text strings: os.path and str operations used by the code.              *)

Slash == 47

StartsWithSlash(p) == Len(p) > 0 /\ p[1] = Slash

EndsWithSlash(p) == Len(p) > 0 /\ p[Len(p)] = Slash

\* os.path.join(a, p) on POSIX, for two components
PathJoin(a, p) ==
    IF StartsWithSlash(p) THEN p
    ELSE IF a = <<>> \/ EndsWithSlash(a) THEN a \o p
    ELSE a \o <<Slash>> \o p

\* p.split('/')
RECURSIVE SplitFrom(_, _, _)
SplitFrom(p, i, cur) ==
    IF i > Len(p) THEN <<cur>>
    ELSE IF p[i] = Slash THEN <<cur>> \o SplitFrom(p, i + 1, <<>>)
    ELSE SplitFrom(p, i + 1, Append(cur, p[i]))

Split(p) == SplitFrom(p, 1, <<>>)

\* os.path.basename(p): what follows the last '/'
Basename(p) == Last(Split(p))

\* FileSystem.abspath
AbsPath(wd, path) == IF StartsWithSlash(path) THEN path ELSE PathJoin(wd, path)

---------------------------------------------------------------------------
(* The binary reader.                                                      *)

\* fp.seek(start); fp.read(num_bytes); fp.seek(back): a read at or across the
\* end of the file returns the bytes that exist, possibly none, and never raises.
ReadWithoutPositionChange(image, start, num_bytes) ==
    SubSeq(image, start + 1, Min(start + num_bytes, Len(image)))

\* struct '<I' of three bytes and an appended zero byte
Read24BitInteger(b) == b[1] + 256 * b[2] + 65536 * b[3]

---------------------------------------------------------------------------
(* Node records.                                                           *)

FileTypeCodes == {0, 1, 2, 3, 4, 6, 8, 9}

filetypes(code) ==
    CASE code = 0 -> "fnode_file"
      [] code = 1 -> "free_space_map"
      [] code = 2 -> "free_fnodes_map"
      [] code = 3 -> "space_accounting_file"
      [] code = 4 -> "bad_device_blocks_file"
      [] code = 6 -> "directory"
      [] code = 8 -> "data"
      [] code = 9 -> "unknown"

Bit(n, i) == (n \div (2 ^ i)) % 2

\* ParseFlags with the deleted flag read from bit 5, the modified bit
ParseFlagsWrongBit(flags) ==
    [allocated |-> Bit(flags, 0) = 1,
     long_file |-> Bit(flags, 1) = 1,
     modified  |-> Bit(flags, 5) = 1,
     deleted   |-> Bit(flags, 5) = 1]

\* '{0:016b}'.format(flags)[::-1]: character i is bit i of the field
ParseFlags(flags) ==
    [allocated |-> Bit(flags, 0) = 1,
     long_file |-> Bit(flags, 1) = 1,
     modified  |-> Bit(flags, 5) = 1,
     deleted   |-> Bit(flags, 6) = 1]

\* the eight slots '<H3s' of pointer_data; a slot of count 0 is skipped
RECURSIVE ParsePointerSlots(_, _)
ParsePointerSlots(data, slot) ==
    IF slot >= 8 THEN <<>>
    ELSE LET start == 5 * slot
             num_blocks == data[start + 1] + 256 * data[start + 2]
             block_address ==
                 Read24BitInteger(SubSeq(data, start + 3, start + 5))
         IN  IF num_blocks = 0
             THEN ParsePointerSlots(data, slot + 1)
             ELSE <<[num_blocks |-> num_blocks, first_block |-> block_address]>>
                  \o ParsePointerSlots(data, slot + 1)

ParsePointerData(data) == ParsePointerSlots(data, 0)

\* _parse_indirect_blocks: num_blocks records '<B3s' read at the position
\* first_block of the file.  ok is FALSE when the read came back short and
\* struct.unpack raises struct.error.
ParseIndirectBlocks(image, num_blocks, first_block) ==
    LET data == ReadWithoutPositionChange(image, first_block, num_blocks * 4)
    IN  IF Len(data) < num_blocks * 4
        THEN [ok |-> FALSE, pointers |-> <<>>]
        ELSE [ok |-> TRUE,
              pointers |->
                  [k \in 1..num_blocks |->
                      [num_blocks  |-> data[4 * (k - 1) + 1],
                       first_block |->
                           Read24BitInteger(
                               SubSeq(data, 4 * (k - 1) + 2, 4 * (k - 1) + 4))]]]

\* the seconds of datetime(1978, 1, 1) on the scale the timestamps are given in
Epoch == 252460800

\* _read_fnode on one unpacked record.  err is "KeyError" for a type byte
\* outside filetypes and "struct.error" for a short indirect read.
ReadFnode(image, raw) ==
    LET flags == ParseFlags(raw.flags)
        pointers == ParsePointerData(raw.pointer_data)
        expanded == [k \in 1..Len(pointers) |->
                        ParseIndirectBlocks(image, pointers[k].num_blocks,
                                            pointers[k].first_block)]
    IN  IF raw.type \notin FileTypeCodes
        THEN [err |-> "KeyError", fnode |-> NoNode]
        ELSE IF flags.long_file /\ \E k \in 1..Len(pointers) : ~expanded[k].ok
        THEN [err |-> "struct.error", fnode |-> NoNode]
        ELSE [err |-> NoErr,
              fnode |->
                 [flags |-> flags,
                  type |-> filetypes(raw.type),
                  creation_time |-> Epoch + raw.creation_time,
                  access_time |-> Epoch + raw.access_time,
                  modification_time |-> Epoch + raw.modification_time,
                  block_pointers |->
                      IF flags.long_file
                      THEN Concat([k \in 1..Len(pointers) |-> expanded[k].pointers])
                      ELSE pointers,
                  size |-> raw.size]]

---------------------------------------------------------------------------
(* File content.                                                           *)

\* _read_blocks: num_blocks volume blocks starting from first_block
ReadBlocks(v, num_blocks, first_block) ==
    ReadWithoutPositionChange(v.image, first_block * v.block_size,
                              num_blocks * v.block_size)

\* _gather_blocks: the reads of the pointers, concatenated in order
GatherBlocks(v, block_pointers) ==
    Concat([k \in 1..Len(block_pointers) |->
               ReadBlocks(v, block_pointers[k].num_blocks,
                          block_pointers[k].first_block)])

GetFileData(v, fnode) == GatherBlocks(v, fnode.block_pointers)

---------------------------------------------------------------------------
(* Directories.  A dict is a sequence of entries in insertion order.       *)

At == 64

FreeName == [i \in 1..14 |-> At]

DictHas(files, name) == \E i \in 1..Len(files) : files[i].name = name

DictGet(files, name) ==
    files[CHOOSE i \in 1..Len(files) : files[i].name = name].fnode

\* files[name] = fnode: a known key keeps its place and takes the new value
DictPut(files, name, fnode) ==
    IF DictHas(files, name)
    THEN [i \in 1..Len(files) |->
             IF files[i].name = name
             THEN [name |-> name, fnode |-> fnode] ELSE files[i]]
    ELSE Append(files, [name |-> name, fnode |-> fnode])

DictKeys(files) == [i \in 1..Len(files) |-> files[i].name]

\* bytes.strip(b'\x00'): NUL bytes removed at both ends
RECURSIVE StripLeft(_)
StripLeft(b) == IF b # <<>> /\ Head(b) = 0 THEN StripLeft(Tail(b)) ELSE b

RECURSIVE StripRight(_)
StripRight(b) == IF b # <<>> /\ Last(b) = 0 THEN StripRight(Front(b)) ELSE b

StripNul(b) == StripRight(StripLeft(b))

\* bytes.decode('ascii') succeeds when every byte is below 128, and then the
\* code points are the byte values
DecodesAsAscii(b) == \A i \in 1..Len(b) : b[i] < 128

\* DecodeRecords with a name that does not decode ending the loop
RECURSIVE DecodeRecordsStopAtBad(_, _, _, _)
DecodeRecordsStopAtBad(nodes, data, first_byte, files) ==
    IF first_byte >= Len(data) THEN [err |-> NoErr, files |-> files]
    ELSE LET chunk == SubSeq(data, first_byte + 1, Min(first_byte + 16, Len(data)))
             id == chunk[1] + 256 * chunk[2]
             name == SubSeq(chunk, 3, 16)
         IN  IF Len(chunk) < 16 THEN [err |-> "struct.error", files |-> <<>>]
             ELSE IF name = FreeName
                  THEN DecodeRecordsStopAtBad(nodes, data, first_byte + 16, files)
             ELSE IF ~DecodesAsAscii(StripNul(name))
                  THEN [err |-> NoErr, files |-> files]
             ELSE IF id \notin DOMAIN nodes THEN [err |-> "KeyError", files |-> <<>>]
             ELSE IF nodes[id].type \in {"directory", "data"}
                  THEN DecodeRecordsStopAtBad(nodes, data, first_byte + 16,
                           DictPut(files, StripNul(name), nodes[id]))
             ELSE DecodeRecordsStopAtBad(nodes, data, first_byte + 16, files)

\* the loop of _read_directory over the records 'H14s' of data, from the
\* record at first_byte on.  A short last record raises struct.error, a node
\* id that is not in _fnodes raises KeyError (neither is caught); a name that
\* does not decode is caught, logged and skipped.
RECURSIVE DecodeRecords(_, _, _, _)
DecodeRecords(nodes, data, first_byte, files) ==
    IF first_byte >= Len(data) THEN [err |-> NoErr, files |-> files]
    ELSE LET chunk == SubSeq(data, first_byte + 1, Min(first_byte + 16, Len(data)))
             id == chunk[1] + 256 * chunk[2]
             name == SubSeq(chunk, 3, 16)
         IN  IF Len(chunk) < 16 THEN [err |-> "struct.error", files |-> <<>>]
             ELSE IF name = FreeName
                  THEN DecodeRecords(nodes, data, first_byte + 16, files)
             ELSE IF ~DecodesAsAscii(StripNul(name))
                  THEN DecodeRecords(nodes, data, first_byte + 16, files)
             ELSE IF id \notin DOMAIN nodes THEN [err |-> "KeyError", files |-> <<>>]
             ELSE IF nodes[id].type \in {"directory", "data"}
                  THEN DecodeRecords(nodes, data, first_byte + 16,
                                     DictPut(files, StripNul(name), nodes[id]))
             ELSE DecodeRecords(nodes, data, first_byte + 16, files)

\* _read_directory.  Its lru_cache is keyed by the node value; the image and
\* _fnodes never change after the mount, so a cached result is the computed one.
ReadDirectory(v, nodes, fnode) ==
    IF fnode.type # "directory" THEN [err |-> "AssertionError", files |-> <<>>]
    ELSE DecodeRecords(nodes, GetFileData(v, fnode), 0, <<>>)

---------------------------------------------------------------------------
(* Path resolution.                                                        *)

\* the loop `for d in dirs` of _path_to_fnode and the lookup of filename
RECURSIVE WalkDirs(_, _, _, _, _, _)
WalkDirs(v, nodes, dirs, filename, current_dir, current_node) ==
    IF dirs = <<>>
    THEN IF filename # <<>>
         THEN IF DictHas(current_dir, filename)
              THEN [err |-> NoErr, fnode |-> DictGet(current_dir, filename)]
              ELSE [err |-> "IOError", fnode |-> NoNode]
         ELSE [err |-> NoErr, fnode |-> current_node]
    ELSE IF ~DictHas(current_dir, Head(dirs))
         THEN [err |-> "IOError", fnode |-> NoNode]
         ELSE The({ IF next.err = "KeyError"
                    THEN [err |-> "IOError", fnode |-> NoNode]
                    ELSE IF next.err # NoErr
                    THEN [err |-> next.err, fnode |-> NoNode]
                    ELSE WalkDirs(v, nodes, Tail(dirs), filename, next.files,
                                  DictGet(current_dir, Head(dirs))) :
                    next \in {ReadDirectory(v, nodes,
                                            DictGet(current_dir, Head(dirs)))} })

\* the body of _path_to_fnode: what a call that misses the cache computes
ResolvePath(v, nodes, rt, wd, path) ==
    The({ IF rootdir.err # NoErr THEN [err |-> rootdir.err, fnode |-> NoNode]
          ELSE WalkDirs(v, nodes, Front(parts), Last(parts), rootdir.files, rt) :
          parts \in {Tail(Split(AbsPath(wd, path)))},
          rootdir \in {ReadDirectory(v, nodes, rt)} })

CachePut(cache, path, fnode) ==
    [k \in (DOMAIN cache) \cup {path} |-> IF k = path THEN fnode ELSE cache[k]]

\* _path_to_fnode under @lru_cache(): the key is the path argument as given;
\* a call that raises stores nothing.  (The cache holds 128 entries; the
\* calls of a behaviour stay far below that, so nothing is evicted.)
PathToFnode(v, nodes, rt, wd, cache, path) ==
    IF path \in DOMAIN cache
    THEN [err |-> NoErr, fnode |-> cache[path], cache |-> cache]
    ELSE The({ IF r.err = NoErr
               THEN [err |-> NoErr, fnode |-> r.fnode,
                     cache |-> CachePut(cache, path, r.fnode)]
               ELSE [err |-> r.err, fnode |-> NoNode, cache |-> cache] :
               r \in {ResolvePath(v, nodes, rt, wd, path)} })

---------------------------------------------------------------------------
(* Volume images the specifications mount.  Blocks are 16 bytes, so a      *)
(* directory record fills one block.                                       *)

N_SUB   == <<83, 85, 66>>
N_A     == <<65>>
N_B     == <<66>>
N_F     == <<70>>
N_X     == <<88>>
N_G     == <<71>>
N_D     == <<68>>
N_N     == <<78>>
N_HELLO == <<72, 69, 76, 76, 79, 46, 84, 88, 84>>
N_BAD   == <<255, 88>>

\* one slot '<H3s' of pointer_data
PointerSlot(count, address) ==
    <<count % 256, count \div 256,
      address % 256, (address \div 256) % 256, address \div 65536>>

\* the 40 bytes of pointer_data holding the given slots
PointerData(slots) ==
    LET used == Concat([k \in 1..Len(slots) |->
                           PointerSlot(slots[k][1], slots[k][2])])
    IN  used \o Zeros(40 - Len(used))

\* one record '<B3s' of an indirect block
IndirectRecord(count, address) ==
    <<count, address % 256, (address \div 256) % 256, address \div 65536>>

\* one directory record 'H14s': the node id, then the name padded with NULs
DirRecord(id, name) == <<id % 256, id \div 256>> \o name \o Zeros(14 - Len(name))

FreeRecord == <<0, 0>> \o FreeName

DataBlock(bytes) == bytes \o Zeros(16 - Len(bytes))

\* one unpacked record of the fnode table
RawFnode(flags, type, ctime, atime, mtime, slots, size) ==
    [flags |-> flags, type |-> type, creation_time |-> ctime,
     access_time |-> atime, modification_time |-> mtime,
     pointer_data |-> PointerData(slots), size |-> size]

\* The volume with the given root directory records and the given two
\* spare table records:
\*   /SUB (node 2) holds HELLO.TXT (node 3, b"hi" in block 6),
\*   /A (node 4) holds SUB (node 5), which holds X (node 6),
\*   node 6 is a long file whose inline pointer (2, 9) names the two
\*   indirect records stored in block 9,
\*   the root directory (node 1) lies in the blocks from 11 on.
Volume(rootRecords, spare7, spare8) ==
    [block_size  |-> 16,
     num_fnodes  |-> 9,
     root_fnode  |-> 1,
     fnode_table |->
        << RawFnode(1, 0, 0, 0, 0, <<>>, 0),
           RawFnode(1, 6, 1, 2, 3, <<<<Len(rootRecords), 11>>>>,
                    16 * Len(rootRecords)),
           RawFnode(1, 6, 4, 5, 6, <<<<1, 5>>>>, 16),
           RawFnode(1, 8, 10, 20, 30, <<<<1, 6>>>>, 2),
           RawFnode(33, 6, 7, 8, 9, <<<<1, 7>>>>, 16),
           RawFnode(1, 6, 7, 8, 9, <<<<1, 8>>>>, 16),
           RawFnode(3, 8, 11, 21, 31, <<<<2, 9>>>>, 18),
           RawFnode(spare7.flags, spare7.type, 0, 0, 0, <<<<1, 10>>>>, 2),
           RawFnode(spare8.flags, spare8.type, 0, 0, 0, <<>>, 0) >>,
     image |->
        Zeros(16) \o Zeros(16)
        \o Zeros(16) \o Zeros(16) \o Zeros(16)
        \o DirRecord(3, N_HELLO)
        \o DataBlock(<<104, 105>>)
        \o DirRecord(5, N_SUB)
        \o DirRecord(6, N_X)
        \o DataBlock(IndirectRecord(1, 6) \o IndirectRecord(1, 10))
        \o DataBlock(<<121, 111>>)
        \o Concat(rootRecords)]

DeletedSpare == [flags |-> 65, type |-> 8]

FreeSpare == [flags |-> 0, type |-> 8]

\* the volume of the sessions: / holds SUB, A and the file F (node 3)
SessionVolume ==
    Volume(<<DirRecord(2, N_SUB), DirRecord(4, N_A), DirRecord(3, N_F)>>,
           DeletedSpare, FreeSpare)

\* flags words of the spare records: free, allocated, deleted, modified,
\* long_file and their combinations
SpareFlags == {0, 1, 64, 65, 33, 32, 97, 3}

\* the last choice has a type byte that filetypes does not map
SpareChoices ==
    {[flags |-> f, type |-> 8] : f \in SpareFlags} \cup {[flags |-> 1, type |-> 5]}

MountVolumes ==
    {Volume(<<DirRecord(2, N_SUB), DirRecord(4, N_A), DirRecord(3, N_F)>>, s7, s8) :
        s7 \in SpareChoices, s8 \in SpareChoices}

---------------------------------------------------------------------------
(* The mount: FileSystem.__init__.                                         *)

FnodesPut(nodes, id, fnode) ==
    [k \in (DOMAIN nodes) \cup {id} |-> IF k = id THEN fnode ELSE nodes[k]]

\* one iteration of the loop of _read_fnode_file
FnodeIteration(v, nodes, id) ==
    LET r == ReadFnode(v.image, v.fnode_table[id + 1])
    IN  IF r.err # NoErr THEN [err |-> r.err, fnodes |-> nodes]
        ELSE IF r.fnode.flags.allocated /\ ~r.fnode.flags.deleted
        THEN [err |-> NoErr, fnodes |-> FnodesPut(nodes, id, r.fnode)]
        ELSE [err |-> NoErr, fnodes |-> nodes]

\* the whole loop, from record id on
RECURSIVE ReadFnodeFile(_, _, _)
ReadFnodeFile(v, nodes, id) ==
    IF id >= v.num_fnodes THEN [err |-> NoErr, fnodes |-> nodes]
    ELSE LET r == FnodeIteration(v, nodes, id)
         IN  IF r.err # NoErr THEN r ELSE ReadFnodeFile(v, r.fnodes, id + 1)

NoResult == [op |-> "none"]

InitMounting(volumes) ==
    /\ vol \in volumes
    /\ phase = "mounting"
    /\ fnode_id = 0
    /\ fnodes = <<>>
    /\ root = NoNode
    /\ cwd = None
    /\ pathCache = <<>>
    /\ result = NoResult
    /\ ops = 0
    /\ walkStack = <<>>
    /\ walked = <<>>

\* the session as FileSystem(filename) returns it
InitMounted(volumes) ==
    /\ vol \in volumes
    /\ phase = "ready"
    /\ fnode_id = vol.num_fnodes
    /\ fnodes = ReadFnodeFile(vol, <<>>, 0).fnodes
    /\ root = fnodes[vol.root_fnode]
    /\ cwd = <<Slash>>
    /\ pathCache = <<>>
    /\ result = NoResult
    /\ ops = 0
    /\ walkStack = <<>>
    /\ walked = <<>>

\* _read_fnode_file, one record per step; an exception ends the construction
ReadFnodeStep ==
    /\ phase = "mounting"
    /\ fnode_id < vol.num_fnodes
    /\ LET r == FnodeIteration(vol, fnodes, fnode_id)
       IN  IF r.err # NoErr
           THEN /\ phase' = "failed"
                /\ result' = [op |-> "mount", err |-> r.err]
                /\ UNCHANGED <<fnodes, fnode_id>>
           ELSE /\ fnodes' = r.fnodes
                /\ fnode_id' = fnode_id + 1
                /\ UNCHANGED <<phase, result>>
    /\ UNCHANGED <<vol, root, cwd, pathCache, ops, walkStack, walked>>

\* self._root = self._fnodes[root_fnode]; self._cwd = '/'
FinishInit ==
    /\ phase = "mounting"
    /\ fnode_id = vol.num_fnodes
    /\ IF vol.root_fnode \in DOMAIN fnodes
       THEN /\ root' = fnodes[vol.root_fnode]
            /\ cwd' = <<Slash>>
            /\ phase' = "ready"
            /\ result' = [op |-> "mount", err |-> NoErr]
       ELSE /\ phase' = "failed"
            /\ result' = [op |-> "mount", err |-> "KeyError"]
            /\ UNCHANGED <<root, cwd>>
    /\ UNCHANGED <<vol, fnode_id, fnodes, pathCache, ops, walkStack, walked>>

---------------------------------------------------------------------------
(* Session calls.  result records the call, the working directory it was   *)
(* made under, the exception it raised (or "none") and what it returned.   *)

Called(op, arg, err, out) ==
    [op |-> op, arg |-> arg, wd |-> cwd, err |-> err, out |-> out]

\* FileSystem.ls: what it raises and returns, and the cache it leaves
Ls(v, nodes, rt, wd, cache, directory) ==
    The({ IF r.err # NoErr THEN [err |-> r.err, out |-> <<>>, cache |-> r.cache]
          ELSE IF r.fnode.type = "data"
          THEN [err |-> NoErr, out |-> directory, cache |-> r.cache]
          ELSE The({ IF entries.err # NoErr
                     THEN [err |-> entries.err, out |-> <<>>, cache |-> r.cache]
                     ELSE [err |-> NoErr, out |-> DictKeys(entries.files),
                           cache |-> r.cache] :
                     entries \in {ReadDirectory(v, nodes, r.fnode)} }) :
          r \in {PathToFnode(v, nodes, rt, wd, cache,
                    IF directory = None \/ directory = <<>> THEN wd ELSE directory)} })

LsCall(directory) ==
    /\ phase = "ready"
    /\ \E r \in {Ls(vol, fnodes, root, cwd, pathCache, directory)} :
           /\ result' = Called("ls", directory, r.err, r.out)
           /\ pathCache' = r.cache
    /\ ops' = ops + 1
    /\ UNCHANGED <<vol, phase, fnode_id, fnodes, root, cwd, walkStack, walked>>

\* FileSystem.cd
CdCall(directory) ==
    /\ phase = "ready"
    /\ \E target \in {IF directory = None THEN <<Slash>>
                        ELSE AbsPath(cwd, directory)} :
       \E r \in {PathToFnode(vol, fnodes, root, cwd, pathCache, target)} :
           /\ pathCache' = r.cache
           /\ IF r.err # NoErr
              THEN /\ result' = Called("cd", directory, r.err, <<>>)
                   /\ cwd' = cwd
              ELSE IF r.fnode.type = "directory"
              THEN /\ result' = Called("cd", directory, NoErr, <<>>)
                   /\ cwd' = target
              ELSE /\ result' = Called("cd", directory, "IOError", <<>>)
                   /\ cwd' = cwd
    /\ ops' = ops + 1
    /\ UNCHANGED <<vol, phase, fnode_id, fnodes, root, walkStack, walked>>

\* a direct call of _read_without_position_change
ReadAtCall(start, num_bytes) ==
    /\ phase = "ready"
    /\ result' = Called("read_at", <<start, num_bytes>>, NoErr,
                        ReadWithoutPositionChange(vol.image, start, num_bytes))
    /\ ops' = ops + 1
    /\ UNCHANGED <<vol, phase, fnode_id, fnodes, root, cwd, pathCache,
                   walkStack, walked>>

\* paths the sessions call ls and cd with
P_Root     == <<Slash>>
P_SUB      == <<Slash>> \o N_SUB
P_A        == <<Slash>> \o N_A
P_A_SUB    == P_A \o <<Slash>> \o N_SUB
P_F        == <<Slash>> \o N_F
P_F_Slash  == P_F \o <<Slash>>
P_F_X      == P_F \o <<Slash>> \o N_X
P_Missing  == <<Slash>> \o N_G

LsArgs == {None, N_SUB, N_A, N_F, N_X, P_SUB, P_A_SUB}

CdArgs == {None, <<>>, N_SUB, N_A, P_A, P_A_SUB, P_F, P_F_Slash, P_F_X, P_Missing}

\* offsets around the end of the image, and lengths
ReadAtStarts(v) == {0, Len(v.image) - 4, Len(v.image), Len(v.image) + 2}

ReadAtLengths == {0, 4, 8}

---------------------------------------------------------------------------
(* Spec: a session on the mounted volume.                                  *)

Init == InitMounted({SessionVolume})

Next ==
    \/ \E d \in LsArgs : ops < MaxOps /\ LsCall(d)
    \/ \E d \in CdArgs : ops < MaxOps /\ CdCall(d)
    \/ \E s \in ReadAtStarts(vol), n \in ReadAtLengths :
          ops < MaxOps /\ ReadAtCall(s, n)

Spec == Init /\ [][Next]_vars

---------------------------------------------------------------------------
(* SpecMount: the construction of the session, record by record, and the   *)
(* first calls on it.                                                      *)

InitMount == InitMounting(MountVolumes)

NextMount ==
    \/ ReadFnodeStep
    \/ FinishInit
    \/ \E d \in LsArgs : ops < MaxCalls /\ LsCall(d)
    \/ \E d \in CdArgs : ops < MaxCalls /\ CdCall(d)

SpecMount == InitMount /\ [][NextMount]_vars

---------------------------------------------------------------------------
(* SpecDir: directory decoding on root directories whose records are drawn *)
(* from the kinds of record an image can hold.                             *)

\* a direct call of _read_directory on the root node
ReadDirectoryCall ==
    /\ phase = "ready"
    /\ LET r == ReadDirectory(vol, fnodes, root)
       IN  result' = Called("read_directory", <<>>, r.err, r.files)
    /\ ops' = ops + 1
    /\ UNCHANGED <<vol, phase, fnode_id, fnodes, root, cwd, pathCache,
                   walkStack, walked>>

\* a directory, a file, a free slot, a name that is not ASCII (with a live and
\* with an absent node id), an id beyond the table, the id of a deleted node,
\* the id of the fnode file (a bookkeeping type), and a second record named F
RecordKinds ==
    { DirRecord(2, N_SUB), DirRecord(3, N_F), FreeRecord,
      DirRecord(3, N_BAD), DirRecord(99, N_BAD),
      DirRecord(99, N_G), DirRecord(7, N_D), DirRecord(0, N_N),
      DirRecord(4, N_F) }

DirVolumes ==
    {Volume(recs, DeletedSpare, FreeSpare) : recs \in [1..MaxRecs -> RecordKinds]}

DirLsArgs == {P_SUB, P_F}

InitDir == InitMounted(DirVolumes)

NextDir ==
    \/ ops < MaxCalls /\ ReadDirectoryCall
    \/ \E d \in DirLsArgs : ops < MaxCalls /\ LsCall(d)

SpecDir == InitDir /\ [][NextDir]_vars

---------------------------------------------------------------------------
(* File and Directory handles, and the tree walk.                          *)

NoHandle == [kind |-> "None"]

\* File.__init__ on a data node
FileHandle(abspath, fnode) ==
    [kind |-> "File", abspath |-> abspath, name |-> Basename(abspath),
     fnode |-> fnode,
     creation_time |-> fnode.creation_time,
     modification_time |-> fnode.creation_time,
     access_time |-> fnode.access_time]

\* the names of the entries of the given type, in the order of the dict
RECURSIVE NamesOfType(_, _)
NamesOfType(files, type) ==
    IF files = <<>> THEN <<>>
    ELSE IF Head(files).fnode.type = type
         THEN <<Head(files).name>> \o NamesOfType(Tail(files), type)
         ELSE NamesOfType(Tail(files), type)

\* Directory.__init__ on a directory node whose entries were read
DirectoryHandle(abspath, fnode, entries) ==
    [kind |-> "Directory", abspath |-> abspath, fnode |-> fnode,
     creation_time |-> fnode.creation_time,
     modification_time |-> fnode.creation_time,
     access_time |-> fnode.access_time,
     files |-> NamesOfType(entries, "data"),
     directories |-> NamesOfType(entries, "directory")]

\* FileSystem.__getitem__: the handle of a path, None for a node that is
\* neither data nor directory
GetItem(v, nodes, rt, wd, cache, path) ==
    The({ IF r.err # NoErr
          THEN [err |-> r.err, handle |-> NoHandle, cache |-> r.cache]
          ELSE IF r.fnode.type = "data"
          THEN [err |-> NoErr, handle |-> FileHandle(abspath, r.fnode),
                cache |-> r.cache]
          ELSE IF r.fnode.type = "directory"
          THEN The({ IF entries.err # NoErr
                     THEN [err |-> entries.err, handle |-> NoHandle,
                           cache |-> r.cache]
                     ELSE [err |-> NoErr,
                           handle |-> DirectoryHandle(abspath, r.fnode,
                                                      entries.files),
                           cache |-> r.cache] :
                     entries \in {ReadDirectory(v, nodes, r.fnode)} })
          ELSE [err |-> NoErr, handle |-> NoHandle, cache |-> r.cache] :
          abspath \in {AbsPath(wd, path)},
          r \in {PathToFnode(v, nodes, rt, wd, cache, AbsPath(wd, path))} })

\* [basedir[n] for n in names]: Directory.__getitem__ on each name in turn
RECURSIVE GetItems(_, _, _, _, _, _, _)
GetItems(v, nodes, rt, wd, cache, abspath, names) ==
    IF names = <<>> THEN [err |-> NoErr, handles |-> <<>>, cache |-> cache]
    ELSE The({ IF first.err # NoErr
               THEN [err |-> first.err, handles |-> <<>>, cache |-> first.cache]
               ELSE The({ IF rest.err # NoErr
                          THEN [err |-> rest.err, handles |-> <<>>,
                                cache |-> rest.cache]
                          ELSE [err |-> NoErr,
                                handles |-> <<first.handle>> \o rest.handles,
                                cache |-> rest.cache] :
                          rest \in {GetItems(v, nodes, rt, wd, first.cache,
                                             abspath, Tail(names))} }) :
               first \in {GetItem(v, nodes, rt, wd, cache,
                                  PathJoin(abspath, Head(names)))} })

\* a generator frame of walk(): before its first statement, or suspended in
\* `for d in dirs` with dirs[i] the next subdirectory to walk
NewFrame(base) == [pc |-> "start", base |-> base, dirs |-> <<>>, i |-> 1]

\* NextSubdirectory with the subdirectories taken from the last to the first
NextSubdirectoryReversed(frame) == frame.dirs[Len(frame.dirs) + 1 - frame.i]

\* the subdirectory the loop `for d in dirs` of a frame takes next
NextSubdirectory(frame) == frame.dirs[frame.i]

\* the body of walk() up to its yield, for the innermost frame
WalkBody(v, nodes, rt, wd, cache, stack) ==
    LET Raise(err, c) == [err |-> err, stack |-> <<>>, yielded |-> <<>>, cache |-> c]
    IN  The({
          The({ IF basedir.err # NoErr THEN Raise(basedir.err, basedir.cache)
                ELSE IF basedir.handle.kind # "Directory"
                THEN Raise("AttributeError", basedir.cache)
                ELSE The({
                  IF files.err # NoErr THEN Raise(files.err, files.cache)
                  ELSE The({
                    IF dirs.err # NoErr THEN Raise(dirs.err, dirs.cache)
                    ELSE [err |-> NoErr,
                          stack |-> Front(stack) \o
                              <<[pc |-> "loop", base |-> base,
                                 dirs |-> [k \in 1..Len(dirs.handles) |->
                                              dirs.handles[k].abspath],
                                 i |-> 1]>>,
                          yielded |-> <<[path |-> base, dirs |-> dirs.handles,
                                         files |-> files.handles]>>,
                          cache |-> dirs.cache] :
                    dirs \in {GetItems(v, nodes, rt, wd, files.cache,
                                       basedir.handle.abspath,
                                       basedir.handle.directories)} }) :
                  files \in {GetItems(v, nodes, rt, wd, basedir.cache,
                                      basedir.handle.abspath,
                                      basedir.handle.files)} }) :
                basedir \in {GetItem(v, nodes, rt, wd, cache, base)} }) :
          base \in {IF Last(stack).base = None \/ Last(stack).base = <<>> THEN wd
                    ELSE AbsPath(wd, Last(stack).base)} })

\* next() on the generator: the frames run until one yields, an exception
\* leaves them all, or the outermost returns (StopIteration)
RECURSIVE Resume(_, _, _, _, _, _)
Resume(v, nodes, rt, wd, cache, stack) ==
    LET top == Last(stack)
    IN  IF stack = <<>>
        THEN [err |-> "StopIteration", stack |-> <<>>, yielded |-> <<>>,
              cache |-> cache]
        ELSE IF top.pc = "start" THEN WalkBody(v, nodes, rt, wd, cache, stack)
        ELSE IF top.i <= Len(top.dirs)
        THEN Resume(v, nodes, rt, wd, cache,
                    Front(stack) \o <<[top EXCEPT !.i = top.i + 1]>>
                    \o <<NewFrame(NextSubdirectory(top))>>)
        ELSE Resume(v, nodes, rt, wd, cache, Front(stack))

\* gen = fs.walk(base): nothing of the body runs before the first next()
WalkCall(base) ==
    /\ phase = "ready"
    /\ result.op = "none"
    /\ walkStack' = <<NewFrame(base)>>
    /\ walked' = <<>>
    /\ result' = Called("walk", base, NoErr, <<>>)
    /\ UNCHANGED <<vol, phase, fnode_id, fnodes, root, cwd, pathCache, ops>>

\* next(gen)
WalkNext ==
    /\ phase = "ready"
    /\ result.op \in {"walk", "next", "extract"}
    /\ result.err = NoErr
    /\ \E r \in {Resume(vol, fnodes, root, cwd, pathCache, walkStack)} :
           /\ walkStack' = r.stack
           /\ walked' = walked \o r.yielded
           /\ pathCache' = r.cache
           /\ result' = Called("next", result.arg, r.err, <<>>)
    /\ UNCHANGED <<vol, phase, fnode_id, fnodes, root, cwd, ops>>

\* args.output
OutputDir == <<111, 117, 116>>

\* str.replace(' ', '_')
SpacesToUnderscores(name) ==
    [i \in 1..Len(name) |-> IF name[i] = 32 THEN 95 ELSE name[i]]

\* File.read
FileRead(v, handle) == GatherBlocks(v, handle.fnode.block_pointers)

\* one iteration of `for f in files` of main(), on the tuple fs.walk('/')
\* yielded last: the file written and the times given to os.utime
MainExtractFile(j) ==
    /\ phase = "ready"
    /\ result.op \in {"next", "extract"}
    /\ result.err = NoErr
    /\ result.arg = <<Slash>>
    /\ walked # <<>>
    /\ j \in 1..Len(Last(walked).files)
    /\ LET f == Last(walked).files[j]
       IN  result' = Called("extract", result.arg, NoErr,
                 [file |-> f,
                  outfile |-> PathJoin(OutputDir \o Last(walked).path,
                                       SpacesToUnderscores(f.name)),
                  content |-> FileRead(vol, f),
                  atime |-> f.access_time,
                  mtime |-> f.modification_time])
    /\ UNCHANGED <<vol, phase, fnode_id, fnodes, root, cwd, pathCache, ops,
                   walkStack, walked>>

---------------------------------------------------------------------------
(* SpecWalk: tree walks and the extraction of main() on volumes whose root *)
(* directory holds entries of distinct names in any order.                 *)

\* the subdirectories SUB (node 2), A (node 4, which holds another SUB) and
\* B (node 5), the file F, and a free slot
WalkKinds ==
    { DirRecord(2, N_SUB), DirRecord(4, N_A), DirRecord(5, N_B),
      DirRecord(3, N_F), FreeRecord }

DistinctNames(recs) ==
    \A i, j \in DOMAIN recs :
        (i # j /\ recs[i] # FreeRecord) => recs[i] # recs[j]

WalkVolumes ==
    {Volume(recs, DeletedSpare, FreeSpare) :
        recs \in {r \in [1..MaxRecs -> WalkKinds] : DistinctNames(r)}}

P_A_Slash == P_A \o <<Slash>>

WalkBases == {None, P_Root, P_A, P_A_Slash, P_F, P_Missing}

InitWalk == InitMounted(WalkVolumes)

NextWalk ==
    \/ \E base \in WalkBases : WalkCall(base)
    \/ WalkNext
    \/ \E j \in 1..MaxRecs : MainExtractFile(j)

SpecWalk == InitWalk /\ [][NextWalk]_vars

---------------------------------------------------------------------------
(* Properties of the session (Spec).                                       *)

IsRelative(p) == p # None /\ p # <<>> /\ ~StartsWithSlash(p)

\* C1: ls(p) with a relative p returns (or raises) what resolving p joined
\* against the working directory of that call gives, whatever was looked up
\* before: the result is that of a resolution with an empty cache.
C1_LsRelativeIgnoresEarlierLookups ==
    (result.op = "ls" /\ IsRelative(result.arg)) =>
        LET fresh == Ls(vol, fnodes, root, result.wd, <<>>, result.arg)
        IN  result.err = fresh.err /\ result.out = fresh.out

\* C8: read_at returns exactly num_bytes bytes when the range lies inside the
\* image and raises an I/O error, instead of returning fewer bytes, when the
\* range exceeds the image.
C8_ReadAtWholeOrError ==
    result.op = "read_at" =>
        LET start == result.arg[1]
            num_bytes == result.arg[2]
        IN  IF start + num_bytes <= Len(vol.image)
            THEN result.err = NoErr /\ Len(result.out) = num_bytes
            ELSE result.err = "IOError"

\* C10: the working directory is an absolute path that resolves to a
\* directory node; a cd that fails raises an I/O error and leaves it as it
\* was; ls and reads leave it as it was.
C10_CwdChangedOnlyByCdToDirectory ==
    /\ StartsWithSlash(cwd)
    /\ LET r == ResolvePath(vol, fnodes, root, cwd, cwd)
       IN  r.err = NoErr /\ r.fnode.type = "directory"
    /\ (result.op = "cd" /\ result.err # NoErr) =>
           (result.err = "IOError" /\ cwd = result.wd)
    /\ result.op \in {"ls", "read_at"} => cwd = result.wd

---------------------------------------------------------------------------
(* Properties of the mount (SpecMount).                                    *)

\* the records '<B3s' the claim names: count of them at byte first_block * block_size
IndirectRegion(v, pointer) ==
    ParseIndirectBlocks(v.image, pointer.num_blocks,
                        pointer.first_block * v.block_size).pointers

\* C4: the pointer list of a long_file node is the records of its indirect
\* regions, each region read at byte offset first_block * block_size,
\* concatenated in the order of the inline slots.
C4_LongFilePointersAreIndirectRecords ==
    \A id \in DOMAIN fnodes :
        fnodes[id].flags.long_file =>
            LET inline == ParsePointerData(vol.fnode_table[id + 1].pointer_data)
            IN  fnodes[id].block_pointers =
                    Concat([k \in 1..Len(inline) |-> IndirectRegion(vol, inline[k])])

LiveIds(v) ==
    {i \in 0..(v.num_fnodes - 1) :
        /\ v.fnode_table[i + 1].flags % 2 = 1
        /\ (v.fnode_table[i + 1].flags \div 64) % 2 = 0}

\* C5: once the session is constructed, the node map holds exactly the table
\* indices whose record is allocated and not deleted, each with its decoded
\* record, and no later call changes that.
C5_NodeMapIsLiveNodes ==
    phase = "ready" =>
        /\ DOMAIN fnodes = LiveIds(vol)
        /\ \A i \in DOMAIN fnodes :
              fnodes[i] = ReadFnode(vol.image, vol.fnode_table[i + 1]).fnode

\* a session on a volume with a deleted and a free record, after a call
C5_Witness ==
    /\ phase = "ready"
    /\ result.op \in {"ls", "cd"}
    /\ vol.fnode_table[8].flags = 65
    /\ vol.fnode_table[9].flags = 0
    /\ 7 \notin DOMAIN fnodes
    /\ 8 \notin DOMAIN fnodes
    /\ 4 \in DOMAIN fnodes

---------------------------------------------------------------------------
(* Properties of directory decoding (SpecDir).                             *)

\* the 16-byte records of a directory's content
Records(data) == [k \in 1..(Len(data) \div 16) |-> SubSeq(data, 16 * k - 15, 16 * k)]

RecordId(rec) == rec[1] + 256 * rec[2]

RecordName(rec) == SubSeq(rec, 3, 16)

IsFree(rec) == RecordName(rec) = FreeName

IsUndecodable(rec) == ~IsFree(rec) /\ \E i \in 3..16 : rec[i] >= 128

\* names a node of the node map whose type is data or directory
IsBrowsable(rec) ==
    /\ RecordId(rec) \in DOMAIN fnodes
    /\ fnodes[RecordId(rec)].type \in {"data", "directory"}

RECURSIVE EntriesOf(_, _)
EntriesOf(recs, files) ==
    IF recs = <<>> THEN files
    ELSE LET rec == Head(recs)
         IN  IF ~IsFree(rec) /\ ~IsUndecodable(rec) /\ IsBrowsable(rec)
             THEN EntriesOf(Tail(recs),
                            DictPut(files, StripNul(RecordName(rec)),
                                    fnodes[RecordId(rec)]))
             ELSE EntriesOf(Tail(recs), files)

\* C2: decoding a directory never raises on a record that names a node id
\* absent from the node map or a node that is neither data nor directory: the
\* record is left out and the mapping holds every other valid record.
C2_DanglingRecordIsExcluded ==
    result.op = "read_directory" =>
        /\ result.err = NoErr
        /\ result.out = EntriesOf(Records(GetFileData(vol, root)), <<>>)

\* the content with every record whose name does not decode made a free slot
Scrubbed(data) ==
    Concat([k \in 1..Len(Records(data)) |->
               IF IsUndecodable(Records(data)[k]) THEN FreeRecord
               ELSE Records(data)[k]])

\* the volume with the undecodable records of its root directory made free slots
ScrubbedVolume(v) ==
    LET start == root.block_pointers[1].first_block * v.block_size
    IN  [v EXCEPT !.image =
            SubSeq(v.image, 1, start)
            \o Scrubbed(SubSeq(v.image, start + 1, Len(v.image)))]

\* C6: a record whose name is not ASCII changes nothing but its own absence:
\* decoding the directory, and listing paths through it, raise and return
\* exactly what they do on the same directory with that record a free slot,
\* and no key of the mapping comes from such a record.
C6_UndecodableRecordIsSkipped ==
    /\ result.op = "read_directory" =>
          LET clean == ReadDirectory(ScrubbedVolume(vol), fnodes, root)
          IN  /\ result.err = clean.err
              /\ result.out = clean.files
              /\ \A i \in 1..Len(result.out) :
                    \E rec \in {r \in RecordKinds : ~IsUndecodable(r) /\ ~IsFree(r)} :
                        result.out[i].name = StripNul(RecordName(rec))
    /\ result.op = "ls" =>
          LET clean == Ls(ScrubbedVolume(vol), fnodes, root, result.wd, <<>>,
                          result.arg)
          IN  result.err = clean.err /\ result.out = clean.out

\* an undecodable record between two valid ones, both of them mapped
C6_Witness ==
    /\ result.op = "read_directory"
    /\ LET recs == Records(GetFileData(vol, root))
       IN  /\ Len(recs) >= 3
           /\ recs[1] = DirRecord(2, N_SUB)
           /\ IsUndecodable(recs[2])
           /\ recs[3] = DirRecord(3, N_F)
    /\ result.err = NoErr
    /\ DictHas(result.out, N_SUB)
    /\ DictHas(result.out, N_F)

---------------------------------------------------------------------------
(* Properties of the walk and of the extraction (SpecWalk).                *)

\* the records of a directory node that name a live node of the given type,
\* in the order they lie in the directory
RECURSIVE RecordsOfType(_, _)
RecordsOfType(recs, type) ==
    IF recs = <<>> THEN <<>>
    ELSE LET rec == Head(recs)
         IN  IF /\ ~IsFree(rec)
                /\ ~IsUndecodable(rec)
                /\ RecordId(rec) \in DOMAIN fnodes
                /\ fnodes[RecordId(rec)].type = type
             THEN <<rec>> \o RecordsOfType(Tail(recs), type)
             ELSE RecordsOfType(Tail(recs), type)

Subdirectories(node) == RecordsOfType(Records(GetFileData(vol, node)), "directory")

DataFiles(node) == RecordsOfType(Records(GetFileData(vol, node)), "data")

ChildPath(path, rec) == PathJoin(path, StripNul(RecordName(rec)))

\* the directories below and including node, depth first, each before its
\* descendants, the subtrees of siblings one after another in record order
RECURSIVE PreOrder(_, _)
PreOrder(path, node) ==
    <<[path |-> path, node |-> node]>> \o
    Concat([k \in 1..Len(Subdirectories(node)) |->
               PreOrder(ChildPath(path, Subdirectories(node)[k]),
                        fnodes[RecordId(Subdirectories(node)[k])])])

\* the base a walk started with the given argument walks from
WalkBase(arg) == IF arg = None \/ arg = <<>> THEN cwd ELSE AbsPath(cwd, arg)

\* C7: a walk from a base that is a directory raises nothing, yields the
\* directories reachable from the base in depth-first pre-order and no path
\* twice, is exhausted exactly when all of them were yielded, and each tuple
\* holds the subdirectories and the files of its directory in record order.
C7_WalkIsPreOrder ==
    result.op \in {"next", "extract"} =>
        \A base \in {ResolvePath(vol, fnodes, root, cwd, WalkBase(result.arg))} :
            (base.err = NoErr /\ base.fnode.type = "directory") =>
            \A expected \in {PreOrder(WalkBase(result.arg), base.fnode)} :
                /\ result.err \in {NoErr, "StopIteration"}
                /\ Len(walked) <= Len(expected)
                /\ result.err = NoErr => walked # <<>>
                /\ result.err = "StopIteration" =>
                       (walkStack = <<>> /\ Len(walked) = Len(expected))
                /\ (walkStack = <<>>) => result.err = "StopIteration"
                /\ \A i, j \in 1..Len(walked) :
                       walked[i].path = walked[j].path => i = j
                /\ \A i \in 1..Len(walked) :
                       /\ walked[i].path = expected[i].path
                       /\ [k \in 1..Len(walked[i].dirs) |-> walked[i].dirs[k].abspath]
                            = [k \in 1..Len(Subdirectories(expected[i].node)) |->
                                 ChildPath(expected[i].path,
                                           Subdirectories(expected[i].node)[k])]
                       /\ [k \in 1..Len(walked[i].files) |-> walked[i].files[k].abspath]
                            = [k \in 1..Len(DataFiles(expected[i].node)) |->
                                 ChildPath(expected[i].path,
                                           DataFiles(expected[i].node)[k])]

\* a finished walk of / whose first subdirectory A has a subdirectory and
\* is followed by a sibling
C7_Witness ==
    /\ result.op = "next"
    /\ result.err = "StopIteration"
    /\ Len(walked) = 4
    /\ walked[1].path = P_Root
    /\ walked[2].path = P_A
    /\ walked[3].path = P_A_SUB
    /\ walked[4].path = P_SUB

\* C3: every file the extraction writes lies at its path under the output
\* directory and holds exactly the file's content: the first size bytes of
\* its blocks, and no more.
C3_ExtractedBytesAreFileContent ==
    result.op = "extract" =>
        /\ result.out.outfile = OutputDir \o result.out.file.abspath
        /\ Len(result.out.content) = result.out.file.fnode.size
        /\ result.out.content =
               SubSeq(GetFileData(vol, result.out.file.fnode), 1,
                      result.out.file.fnode.size)

\* C9: the times given to a written file are the node's access time and
\* modification time: the epoch plus the fields of the node's record.
C9_ExtractedTimesAreNodeTimes ==
    result.op = "extract" =>
        \E id \in DOMAIN fnodes :
            /\ fnodes[id] = result.out.file.fnode
            /\ result.out.atime = Epoch + vol.fnode_table[id + 1].access_time
            /\ result.out.mtime = Epoch + vol.fnode_table[id + 1].modification_time

===========================================================================
